---------------------------- MODULE Spec2Model ----------------------------
(***************************************************************************)
(* Model of cvxconsensus: the coordinator loop of consensus() and the      *)
(* worker loop of run_worker(), which exchange messages over one FIFO pipe *)
(* per worker, and the projection step w_project().                        *)
(*                                                                         *)
(* Numbers are exact rationals <<n, d>> in lowest terms with d > 0.  Every *)
(* variable of a problem is a scalar.  resid[] holds the SQUARE of the     *)
(* Euclidean norm the code records, and the stopping test compares it with *)
(* eps_stop^2 * resid[0]; for eps_stop >= 0 this is the same comparison.   *)
(***************************************************************************)
EXTENDS Integers, Sequences, FiniteSets, TLC

(***************************************************************************)
(* Bounds of the model.                                                    *)
(***************************************************************************)
N == 2
MaxIter == 3
NumKeys == 2
MaxFaults == 1

Workers == 1..N
Keys == 1..NumKeys

(***************************************************************************)
(* Exact rational arithmetic.                                              *)
(***************************************************************************)
Abs(n) == IF n < 0 THEN -n ELSE n

RECURSIVE Gcd(_, _)
Gcd(a, b) == IF b = 0 THEN a ELSE Gcd(b, a % b)

Norm(n, d) ==
    LET g == Gcd(Abs(n), Abs(d))
        sg == IF d < 0 THEN -1 ELSE 1
    IN  <<sg * (n \div g), sg * (d \div g)>>

Rat(n) == <<n, 1>>
Zero == Rat(0)
One == Rat(1)
RAdd(p, q) ==
    LET g == Gcd(p[2], q[2])
    IN  Norm(p[1] * (q[2] \div g) + q[1] * (p[2] \div g), (p[2] \div g) * q[2])
RNeg(p) == <<-p[1], p[2]>>
RSub(p, q) == RAdd(p, RNeg(q))
RMul(p, q) ==
    LET g1 == Gcd(Abs(p[1]), q[2])
        g2 == Gcd(Abs(q[1]), p[2])
    IN  <<(p[1] \div g1) * (q[1] \div g2), (p[2] \div g2) * (q[2] \div g1)>>
RDiv(p, q) == RMul(p, Norm(q[2], q[1]))
RLe(p, q) ==
    LET g == Gcd(p[2], q[2])
    IN  p[1] * (q[2] \div g) <= q[1] * (p[2] \div g)

RECURSIVE RSum(_)
RSum(seq) == IF seq = <<>> THEN Zero ELSE RAdd(Head(seq), RSum(Tail(seq)))

\* Square of the Euclidean norm of a vector of rationals.
RECURSIVE NormSq(_)
NormSq(seq) ==
    IF seq = <<>> THEN Zero
    ELSE RAdd(RMul(Head(seq), Head(seq)), NormSq(Tail(seq)))

RECURSIVE Concat(_)
Concat(seqs) == IF seqs = <<>> THEN <<>> ELSE Head(seqs) \o Concat(Tail(seqs))

Min(a, b) == IF a <= b THEN a ELSE b

\* The keys of a dict in their (fixed) iteration order.
RECURSIVE KeyOrder(_)
KeyOrder(S) ==
    IF S = {} THEN <<>>
    ELSE LET m == CHOOSE x \in S : \A y \in S : x <= y
         IN  <<m>> \o KeyOrder(S \ {m})

\* Flattened concatenation of a dict's entries over its keys.
Flatten(d) == [j \in 1..Cardinality(DOMAIN d) |-> d[KeyOrder(DOMAIN d)[j]]]

(***************************************************************************)
(* The inputs of consensus(): p_list and the keyword arguments.  A problem *)
(* is its set of variable ids and the value a its constraints fix them to. *)
(***************************************************************************)
MAccelValues == {-1, 0, 1}
EpsValues == {Zero, <<3, 4>>, One}

\* Every worker holds every key; worker 1 holds every key and the others
\* key 1; each worker holds one key of its own.
KeyConfigs ==
    { [i \in Workers |-> Keys],
      [i \in Workers |-> IF i = 1 THEN Keys ELSE {1}],
      [i \in Workers |-> {((i - 1) % NumKeys) + 1}] }

TargetConfigs == { [i \in Workers |-> Zero], [i \in Workers |-> Rat(i)] }

ProblemLists ==
    { [i \in Workers |-> [vars |-> kc[i], a |-> tc[i]]] :
          kc \in KeyConfigs, tc \in TargetConfigs }

\* The statuses a solve can report (cvxpy.settings): optimal, the statuses
\* of s.INF_OR_UNB, and any other status (an inaccurate or failed solve).
OPTIMAL == "optimal"
INF_OR_UNB == {"infeasible", "unbounded"}
Status == {OPTIMAL, "infeasible", "unbounded", "other_failure"}

(***************************************************************************)
(* prox_step / prox.solve(): problem p is "minimize 0 subject to x == a"   *)
(* for each of its variables, so the proximal problem                      *)
(*   minimize (rho/2) * sum_squares(x - y)  subject to  x == a             *)
(* has the solution x[key] = a whatever y and rho are.                     *)
(***************************************************************************)
ProxSolve(p, vi) == [key \in DOMAIN vi |-> p.a]

\* y^(k+1/2) = 2*x^(k+1/2) - y^(k)
YHalf(xh, vi) == [key \in DOMAIN vi |-> RSub(RMul(Rat(2), xh[key]), vi[key].y)]

\* prox_step: the initial z and y parameters are zero; x has no value until
\* the first solve assigns it (Zero stands for that unread value).
InitV(p) == [key \in p.vars |-> [x |-> Zero, y |-> Zero, z |-> Zero]]

(***************************************************************************)
(* w_project(prox_res, s_half).                                            *)
(***************************************************************************)
\* Variant: the status test names "infeasible" alone.
RECURSIVE ScanError_InfOnly(_, _, _)
ScanError_InfOnly(res, s_half, i) ==
    IF i > Len(res) THEN "none"
    ELSE IF res[i].status = "infeasible" THEN "RuntimeError_InfOrUnb"
    ELSE IF ~(DOMAIN res[i].y_half \subseteq DOMAIN s_half) THEN "KeyError"
    ELSE ScanError_InfOnly(res, s_half, i + 1)

\* The loop over prox_res: the first error it raises, if any.
RECURSIVE ScanError(_, _, _)
ScanError(res, s_half, i) ==
    IF i > Len(res) THEN "none"
    ELSE IF res[i].status \in INF_OR_UNB THEN "RuntimeError_InfOrUnb"
    ELSE IF ~(DOMAIN res[i].y_half \subseteq DOMAIN s_half) THEN "KeyError"
    ELSE ScanError(res, s_half, i + 1)

\* Variant: a worker that does not hold the key counts, with difference 0.
RECURSIVE YsDiff_AllWorkers(_, _, _, _)
YsDiff_AllWorkers(res, s_half, key, i) ==
    IF i > Len(res) THEN <<>>
    ELSE (IF key \in DOMAIN res[i].y_half
          THEN <<RSub(res[i].y_half[key], s_half[key])>>
          ELSE <<Zero>>) \o YsDiff_AllWorkers(res, s_half, key, i + 1)

\* ys_diff[key]: the differences y_half[key] - s_half[key], in pipe order.
RECURSIVE YsDiff(_, _, _, _)
YsDiff(res, s_half, key, i) ==
    IF i > Len(res) THEN <<>>
    ELSE (IF key \in DOMAIN res[i].y_half
          THEN <<RSub(res[i].y_half[key], s_half[key])>>
          ELSE <<>>) \o YsDiff(res, s_half, key, i + 1)

YsKeys(res) == UNION { DOMAIN res[i].y_half : i \in 1..Len(res) }

MatTerm(res, s_half, key) ==
    LET d == YsDiff(res, s_half, key, 1)
    IN  RDiv(RSum(d), RAdd(One, Rat(Len(d))))

\* Variant: mat_term is subtracted once, not once per worker counted.
ZNew_NoCount(res, s_half, key) ==
    LET d == YsDiff(res, s_half, key, 1)
    IN  RSub(RAdd(s_half[key], RSum(d)), MatTerm(res, s_half, key))

ZNew(res, s_half, key) ==
    LET d == YsDiff(res, s_half, key, 1)
    IN  RSub(RAdd(s_half[key], RSum(d)),
             RMul(Rat(Len(d)), MatTerm(res, s_half, key)))

WProject(res, s_half) ==
    LET e == ScanError(res, s_half, 1)
    IN  IF e # "none" THEN [err |-> e]
        ELSE IF DOMAIN s_half # YsKeys(res) THEN [err |-> "RuntimeError_Mismatch"]
        ELSE [err |-> "none",
              mat_term |-> [key \in DOMAIN s_half |-> MatTerm(res, s_half, key)],
              z_new |-> [key \in DOMAIN s_half |-> ZNew(res, s_half, key)]]

(***************************************************************************)
(* run_worker: the updates after the broadcast.                            *)
(***************************************************************************)
\* Variant: the worker's z keeps its value.
ApplyW_KeepZ(vi, mat, zn) ==
    [key \in DOMAIN vi |-> [vi[key] EXCEPT !.x = RAdd(vi[key].z, mat[key])]]

\* x = s_half + mat_term with s_half the worker's previous z; z = z_new.
ApplyW(vi, mat, zn) ==
    [key \in DOMAIN vi |->
        [vi[key] EXCEPT !.x = RAdd(vi[key].z, mat[key]), !.z = zn[key]]]

\* Non-accelerated: y += x - x_half.
DualStep(vi, xh) ==
    [key \in DOMAIN vi |->
        [vi[key] EXCEPT !.y = RAdd(vi[key].y, RSub(vi[key].x, xh[key]))]]

\* x_half - x per key.
XDiff(vi, xh) == [key \in DOMAIN vi |-> RSub(xh[key], vi[key].x)]

\* Variant: the oldest entry is never dropped.
Push_NoEvict(hist, d, m_k) == Append(hist, d)

\* append, then drop the oldest entry when longer than m_k + 1.
Push(hist, d, m_k) ==
    LET h == Append(hist, d)
    IN  IF Len(h) > m_k + 1 THEN Tail(h) ELSE h

\* sum_{j = 0..m_k} alpha[j] * hist[j][key]
RECURSIVE Weighted(_, _, _, _)
Weighted(al, hist, key, j) ==
    IF j = 0 THEN Zero
    ELSE RAdd(Weighted(al, hist, key, j - 1), RMul(al[j], hist[j][key]))

Mix(al, hist, m_k) == [key \in DOMAIN hist[1] |-> Weighted(al, hist, key, m_k + 1)]

(***************************************************************************)
(* aa_weights(hists): the weights minimising                               *)
(*   || sum_j alpha[j] * R[j] ||^2   subject to  sum(alpha) = 1, alpha >= 0*)
(* where R[j] concatenates entry j of every window.  Windows hold at most  *)
(* two entries here (m_accel <= 1), where the minimiser is closed-form.    *)
(***************************************************************************)
Column(hists, j) == Concat([h \in 1..Len(hists) |-> Flatten(hists[h][j])])

Dot(u, w) == RSum([j \in 1..Len(u) |-> RMul(u[j], w[j])])

Clamp01(q) == IF RLe(q, Zero) THEN Zero ELSE IF RLe(One, q) THEN One ELSE q

AAWeights(hists) ==
    IF Len(hists[1]) = 1 THEN <<One>>
    ELSE LET r0 == Column(hists, 1)
             r1 == Column(hists, 2)
             d == [j \in 1..Len(r1) |-> RSub(r1[j], r0[j])]
             dd == Dot(d, d)
             a0 == IF dd = Zero THEN Zero ELSE Clamp01(RDiv(Dot(r1, d), dd))
         IN  <<a0, RSub(One, a0)>>

(***************************************************************************)
(* State.                                                                  *)
(***************************************************************************)
VARIABLES
    p_list, max_iter, eps_stop, anderson, m_accel,  \* arguments of consensus()
    cpc,        \* the coordinator's position in consensus()
    ci,         \* index of the pipe / process the current loop is at
    err,        \* the exception that left consensus(), "none" if none
    k, z, s, resid, s_diff,
    prox_res, mat_term, z_new, y_hist, v_res, alpha,
    result,     \* the dictionary consensus() returns
    wpc,        \* each worker's position in run_worker()
    v,          \* each worker's vmap: x, y, z per variable id
    x_half, y_diff, wk,
    toCoord, toWorker,  \* the two directions of each pipe, FIFO
    wround,     \* history: loop iterations each worker has completed
    faults,     \* history: solves that reported a status other than optimal
    nHalfSent, nHalfRecv, nBcastSent, nBcastRecv  \* history: message counts

inputs == <<p_list, max_iter, eps_stop, anderson, m_accel>>
cvars == <<cpc, ci, err, k, z, s, resid, s_diff, prox_res, mat_term, z_new,
           y_hist, v_res, alpha, result>>
wvars == <<wpc, v, x_half, y_diff, wk>>
pipes == <<toCoord, toWorker>>
hvars == <<wround, faults, nHalfSent, nHalfRecv, nBcastSent, nBcastRecv>>
vars == <<inputs, cvars, wvars, pipes, hvars>>

\* var_all: the ids of all variables of all problems.
VarAll == UNION { p_list[i].vars : i \in Workers }

NoResult == [zvals |-> <<>>, residuals |-> <<>>, num_iters |-> 0]

\* The state at the call of consensus(), before any of its statements.
InitState ==
    /\ cpc = "config" /\ ci = 1 /\ err = "none"
    /\ k = 0 /\ z = <<>> /\ s = <<>> /\ resid = <<>> /\ s_diff = <<>>
    /\ prox_res = <<>> /\ mat_term = <<>> /\ z_new = <<>>
    /\ y_hist = <<>> /\ v_res = <<>> /\ alpha = <<>>
    /\ result = NoResult
    /\ wpc = [i \in Workers |-> "unstarted"]
    /\ v = [i \in Workers |-> <<>>]
    /\ x_half = [i \in Workers |-> <<>>]
    /\ y_diff = [i \in Workers |-> <<>>]
    /\ wk = [i \in Workers |-> -1]
    /\ toCoord = [i \in Workers |-> <<>>]
    /\ toWorker = [i \in Workers |-> <<>>]
    /\ wround = [i \in Workers |-> 0]
    /\ faults = 0
    /\ nHalfSent = [i \in Workers |-> 0]
    /\ nHalfRecv = [i \in Workers |-> 0]
    /\ nBcastSent = [i \in Workers |-> 0]
    /\ nBcastRecv = [i \in Workers |-> 0]

Init ==
    /\ p_list \in ProblemLists
    /\ max_iter \in 0..MaxIter
    /\ eps_stop \in EpsValues
    /\ anderson \in BOOLEAN
    /\ m_accel \in MAccelValues
    /\ anderson \/ m_accel <= 0   \* without anderson only its sign is read
    /\ InitState

(***************************************************************************)
(* consensus(): the coordinator.                                           *)
(***************************************************************************)
Raise(e) == cpc' = "raised" /\ err' = e

\* Variant: the sign of m_accel is not tested before the workers start.
CoordConfig_NoCheck ==
    /\ cpc = "config"
    /\ cpc' = "spawn" /\ ci' = 1
    /\ UNCHANGED <<inputs, err, k, z, s, resid, s_diff, prox_res, mat_term,
                   z_new, y_hist, v_res, alpha, result, wvars, pipes, hvars>>

\* m_accel = int(...); if m_accel < 0: raise ValueError
CoordConfig ==
    /\ cpc = "config"
    /\ IF m_accel < 0
       THEN Raise("ValueError") /\ UNCHANGED ci
       ELSE cpc' = "spawn" /\ ci' = 1 /\ UNCHANGED err
    /\ UNCHANGED <<inputs, k, z, s, resid, s_diff, prox_res, mat_term, z_new,
                   y_hist, v_res, alpha, result, wvars, pipes, hvars>>

\* for i in range(N): Pipe(); Process(target = run_worker, ...).start()
\* The started worker builds its proximal problem (prox_step).
CoordSpawn ==
    /\ cpc = "spawn"
    /\ wpc' = [wpc EXCEPT ![ci] = "solve"]
    /\ v' = [v EXCEPT ![ci] = InitV(p_list[ci])]
    /\ IF ci < N THEN ci' = ci + 1 /\ UNCHANGED cpc
                 ELSE ci' = 1 /\ cpc' = "init"
    /\ UNCHANGED <<inputs, err, k, z, s, resid, s_diff, prox_res, mat_term,
                   z_new, y_hist, v_res, alpha, result, x_half, y_diff, wk,
                   pipes, hvars>>

\* s = defaultdict(float); z = zeros; resid = np.zeros(max_iter); k = 0
CoordInit ==
    /\ cpc = "init"
    /\ s' = <<>>
    /\ z' = [key \in VarAll |-> Zero]
    /\ resid' = [j \in 1..max_iter |-> Zero]
    /\ s_diff' = <<>>
    /\ k' = 0
    /\ cpc' = "recv_half" /\ ci' = 1
    /\ UNCHANGED <<inputs, err, prox_res, mat_term, z_new, y_hist, v_res,
                   alpha, result, wvars, pipes, hvars>>

\* Variant: the coordinator goes on to the projection after the first recv.
CoordRecvHalf_First ==
    /\ cpc = "recv_half"
    /\ toCoord[ci] # <<>>
    /\ prox_res' = Append(prox_res, Head(toCoord[ci]))
    /\ toCoord' = [toCoord EXCEPT ![ci] = Tail(@)]
    /\ nHalfRecv' = [nHalfRecv EXCEPT ![ci] = @ + 1]
    /\ ci' = 1 /\ cpc' = "project"
    /\ UNCHANGED <<inputs, err, k, z, s, resid, s_diff, mat_term, z_new,
                   y_hist, v_res, alpha, result, wvars, toWorker,
                   wround, faults, nHalfSent, nBcastSent, nBcastRecv>>

\* prox_res = [pipe.recv() for pipe in pipes]: one blocking recv per step.
CoordRecvHalf ==
    /\ cpc = "recv_half"
    /\ toCoord[ci] # <<>>
    /\ prox_res' = Append(prox_res, Head(toCoord[ci]))
    /\ toCoord' = [toCoord EXCEPT ![ci] = Tail(@)]
    /\ nHalfRecv' = [nHalfRecv EXCEPT ![ci] = @ + 1]
    /\ IF ci < N THEN ci' = ci + 1 /\ UNCHANGED cpc
                 ELSE ci' = 1 /\ cpc' = "project"
    /\ UNCHANGED <<inputs, err, k, z, s, resid, s_diff, mat_term, z_new,
                   y_hist, v_res, alpha, result, wvars, toWorker,
                   wround, faults, nHalfSent, nBcastSent, nBcastRecv>>

\* mat_term, z_new = w_project(prox_res, z)
\* prox_res is not read again before the next round assigns it: the model
\* forgets it once w_project has returned.
CoordProject ==
    /\ cpc = "project"
    /\ LET r == WProject(prox_res, z)
       IN  IF r.err # "none"
           THEN Raise(r.err) /\ UNCHANGED <<mat_term, z_new, ci, prox_res>>
           ELSE /\ mat_term' = r.mat_term
                /\ z_new' = r.z_new
                /\ prox_res' = <<>>
                /\ cpc' = "bcast" /\ ci' = 1
                /\ UNCHANGED err
    /\ UNCHANGED <<inputs, k, z, s, resid, s_diff, y_hist, v_res,
                   alpha, result, wvars, pipes, hvars>>

\* Variant: the tuple carries the index of the next round.
BcastMsg_NextK ==
    [type |-> "bcast", mat_term |-> mat_term, z_new |-> z_new, k |-> k + 1]

\* Variant: the tuple carries the old z in place of z_new.
BcastMsg_OldZ == [type |-> "bcast", mat_term |-> mat_term, z_new |-> z, k |-> k]

\* The tuple (mat_term, z_new, k).
BcastMsg == [type |-> "bcast", mat_term |-> mat_term, z_new |-> z_new, k |-> k]

\* for pipe in pipes: pipe.send((mat_term, z_new, k))
CoordBcast ==
    /\ cpc = "bcast"
    /\ toWorker' = [toWorker EXCEPT ![ci] = Append(@, BcastMsg)]
    /\ nBcastSent' = [nBcastSent EXCEPT ![ci] = @ + 1]
    /\ IF ci < N THEN ci' = ci + 1 /\ UNCHANGED cpc
                 ELSE ci' = 1 /\ cpc' = IF anderson THEN "recv_hist" ELSE "split"
    /\ UNCHANGED <<inputs, err, k, z, s, resid, s_diff, prox_res, mat_term,
                   z_new, y_hist, v_res, alpha, result, wvars, toCoord,
                   wround, faults, nHalfSent, nHalfRecv, nBcastRecv>>

\* Value of s[key] for a defaultdict(float).
SGet(key) == IF key \in DOMAIN s THEN s[key] ELSE Zero

\* The coordinator's residual z[key] - z_new[key], per key of var_all.
ZDiff == [key \in VarAll |-> RSub(z[key], z_new[key])]

\* Non-accelerated: s[key] += z_new[key] - z[key] for key in var_all.
CoordSplit ==
    /\ cpc = "split"
    /\ s' = [key \in DOMAIN s \cup VarAll |->
                IF key \in VarAll
                THEN RAdd(SGet(key), RSub(z_new[key], z[key]))
                ELSE s[key]]
    /\ cpc' = "recv_res" /\ ci' = 1
    /\ UNCHANGED <<inputs, err, k, z, resid, s_diff, prox_res, mat_term, z_new,
                   y_hist, v_res, alpha, result, wvars, pipes, hvars>>

\* v_res = [pipe.recv() for pipe in pipes]
CoordRecvRes ==
    /\ cpc = "recv_res"
    /\ toCoord[ci] # <<>>
    /\ v_res' = (IF ci = 1 THEN <<>> ELSE v_res) \o <<Head(toCoord[ci])>>
    /\ toCoord' = [toCoord EXCEPT ![ci] = Tail(@)]
    /\ IF ci < N THEN ci' = ci + 1 /\ UNCHANGED cpc
                 ELSE ci' = 1 /\ cpc' = "norm"
    /\ UNCHANGED <<inputs, err, k, z, s, resid, s_diff, prox_res, mat_term,
                   z_new, y_hist, alpha, result, wvars, toWorker, hvars>>

\* The squared norm of the workers' residuals and the coordinator's own.
ResidSq(parts, own) ==
    NormSq(Concat([j \in 1..Len(parts) |-> parts[j].y_res]) \o Flatten(own))

\* resid[k] = np.linalg.norm(v_res): IndexError when k is not an index.
CoordNorm ==
    /\ cpc = "norm"
    /\ IF k + 1 \in DOMAIN resid
       THEN /\ resid' = [resid EXCEPT ![k + 1] = ResidSq(v_res, ZDiff)]
            /\ cpc' = "stop_test"
            /\ UNCHANGED err
       ELSE Raise("IndexError") /\ UNCHANGED resid
    /\ UNCHANGED <<inputs, ci, k, z, s, s_diff, prox_res, mat_term, z_new,
                   y_hist, v_res, alpha, result, wvars, pipes, hvars>>

\* Accelerated: y_hist = [pipe.recv() for pipe in pipes]
CoordRecvHist ==
    /\ cpc = "recv_hist"
    /\ toCoord[ci] # <<>>
    /\ y_hist' = (IF ci = 1 THEN <<>> ELSE y_hist) \o <<Head(toCoord[ci])>>
    /\ toCoord' = [toCoord EXCEPT ![ci] = Tail(@)]
    /\ IF ci < N THEN ci' = ci + 1 /\ UNCHANGED cpc
                 ELSE ci' = 1 /\ cpc' = "weights"
    /\ UNCHANGED <<inputs, err, k, z, s, resid, s_diff, prox_res, mat_term,
                   z_new, v_res, alpha, result, wvars, toWorker, hvars>>

\* Accelerated: push z - z_new into s_diff, record resid[k], compute alpha.
CoordWeights ==
    /\ cpc = "weights"
    /\ LET m_k == Min(m_accel, k)
           sd == Push(s_diff, ZDiff, m_k)
       IN  /\ s_diff' = sd
           /\ IF k + 1 \in DOMAIN resid
              THEN /\ resid' = [resid EXCEPT ![k + 1] = ResidSq(y_hist, ZDiff)]
                   /\ alpha' = AAWeights(
                          [j \in 1..Len(y_hist) |-> y_hist[j].y_diff] \o <<sd>>)
                   /\ cpc' = "send_alpha" /\ ci' = 1
                   /\ UNCHANGED err
              ELSE Raise("IndexError") /\ UNCHANGED <<resid, alpha, ci>>
    /\ UNCHANGED <<inputs, k, z, s, prox_res, mat_term, z_new, y_hist, v_res,
                   result, wvars, pipes, hvars>>

\* Variant: alpha is sent on the first pipe only.
CoordSendAlpha_FirstOnly ==
    /\ cpc = "send_alpha"
    /\ toWorker' = [toWorker EXCEPT ![ci] =
           Append(@, [type |-> "alpha", alpha |-> alpha])]
    /\ ci' = 1 /\ cpc' = "mix"
    /\ UNCHANGED <<inputs, err, k, z, s, resid, s_diff, prox_res, mat_term,
                   z_new, y_hist, v_res, alpha, result, wvars, toCoord, hvars>>

\* for pipe in pipes: pipe.send(alpha)
CoordSendAlpha ==
    /\ cpc = "send_alpha"
    /\ toWorker' = [toWorker EXCEPT ![ci] =
           Append(@, [type |-> "alpha", alpha |-> alpha])]
    /\ IF ci < N THEN ci' = ci + 1 /\ UNCHANGED cpc
                 ELSE ci' = 1 /\ cpc' = "mix"
    /\ UNCHANGED <<inputs, err, k, z, s, resid, s_diff, prox_res, mat_term,
                   z_new, y_hist, v_res, alpha, result, wvars, toCoord, hvars>>

\* Accelerated: s[key] = sum_j alpha[j] * s_diff[j][key] for key in var_all.
CoordMix ==
    /\ cpc = "mix"
    /\ LET sv == Mix(alpha, s_diff, Min(m_accel, k))
       IN  s' = [key \in DOMAIN s \cup VarAll |->
                    IF key \in VarAll THEN sv[key] ELSE s[key]]
    /\ cpc' = "stop_test"
    /\ UNCHANGED <<inputs, ci, err, k, z, resid, s_diff, prox_res, mat_term,
                   z_new, y_hist, v_res, alpha, result, wvars, pipes, hvars>>

\* Variant: the test is against the preceding residual, resid[k-2] (for
\* k = 1 the index -1, the last entry of the array).
Finished_Preceding(kn, r) ==
    kn >= max_iter
    \/ RLe(r[kn], RMul(RMul(eps_stop, eps_stop),
                       r[IF kn = 1 THEN Len(r) ELSE kn - 1]))

\* finished = k >= max_iter or resid[k-1] <= eps_stop*resid[0], at the new k.
Finished(kn, r) ==
    kn >= max_iter \/ RLe(r[kn], RMul(RMul(eps_stop, eps_stop), r[1]))

\* z = z_new; k = k + 1; finished = ...
CoordStopTest ==
    /\ cpc = "stop_test"
    /\ z' = z_new
    /\ k' = k + 1
    /\ cpc' = IF Finished(k + 1, resid) THEN "terminate" ELSE "recv_half"
    /\ ci' = 1
    /\ UNCHANGED <<inputs, err, s, resid, s_diff, prox_res, mat_term, z_new,
                   y_hist, v_res, alpha, result, wvars, pipes, hvars>>

\* [p.terminate() for p in procs]
CoordTerminate ==
    /\ cpc = "terminate"
    /\ wpc' = [wpc EXCEPT ![ci] = "terminated"]
    /\ IF ci < N THEN ci' = ci + 1 /\ UNCHANGED cpc
                 ELSE ci' = 1 /\ cpc' = "return"
    /\ UNCHANGED <<inputs, err, k, z, s, resid, s_diff, prox_res, mat_term,
                   z_new, y_hist, v_res, alpha, result, v, x_half, y_diff, wk,
                   pipes, hvars>>

\* return {"zvals": z, "residuals": resid[:k], "num_iters": k, ...}
CoordReturn ==
    /\ cpc = "return"
    /\ result' = [zvals |-> z, residuals |-> SubSeq(resid, 1, k), num_iters |-> k]
    /\ cpc' = "returned"
    /\ UNCHANGED <<inputs, ci, err, k, z, s, resid, s_diff, prox_res, mat_term,
                   z_new, y_hist, v_res, alpha, wvars, pipes, hvars>>

(***************************************************************************)
(* run_worker(): worker i.  A step runs from one blocking recv to the next.*)
(***************************************************************************)
\* prox.solve(); x_half; y_half; pipe.send((prox.status, y_half))
\* The status is whatever the local solver reports; at most MaxFaults
\* solves of a run report a status other than optimal.
WorkerSolve(i) ==
    /\ wpc[i] = "solve"
    /\ \E st \in Status :
         LET xh == ProxSolve(p_list[i], v[i])
         IN  /\ st = OPTIMAL \/ faults < MaxFaults
             /\ faults' = IF st = OPTIMAL THEN faults ELSE faults + 1
             /\ x_half' = [x_half EXCEPT ![i] = xh]
             /\ v' = [v EXCEPT ![i] = [key \in DOMAIN v[i] |->
                                          [v[i][key] EXCEPT !.x = xh[key]]]]
             /\ toCoord' = [toCoord EXCEPT ![i] =
                    Append(@, [type |-> "half", status |-> st,
                               y_half |-> YHalf(xh, v[i])])]
    /\ nHalfSent' = [nHalfSent EXCEPT ![i] = @ + 1]
    /\ wpc' = [wpc EXCEPT ![i] = "recv_bcast"]
    /\ UNCHANGED <<inputs, cvars, y_diff, wk, toWorker, wround, nHalfRecv,
                   nBcastSent, nBcastRecv>>

\* mat_term, z_new, k = pipe.recv(), then the update of x, z (and y) and the
\* send of the residual (or of the history window and the residual).
WorkerRecvBcast(i) ==
    /\ wpc[i] = "recv_bcast"
    /\ toWorker[i] # <<>>
    /\ LET msg == Head(toWorker[i])
           w == ApplyW(v[i], msg.mat_term, msg.z_new)
           d == XDiff(w, x_half[i])
       IN  /\ wk' = [wk EXCEPT ![i] = msg.k]
           /\ IF anderson
              THEN LET yd == Push(y_diff[i], d, Min(m_accel, msg.k))
                   IN  /\ v' = [v EXCEPT ![i] = w]
                       /\ y_diff' = [y_diff EXCEPT ![i] = yd]
                       /\ toCoord' = [toCoord EXCEPT ![i] =
                              Append(@, [type |-> "hist", y_diff |-> yd,
                                         y_res |-> Flatten(d)])]
                       /\ wpc' = [wpc EXCEPT ![i] = "recv_alpha"]
                       /\ UNCHANGED wround
              ELSE /\ v' = [v EXCEPT ![i] = DualStep(w, x_half[i])]
                   /\ toCoord' = [toCoord EXCEPT ![i] =
                          Append(@, [type |-> "res", y_res |-> Flatten(d)])]
                   /\ wpc' = [wpc EXCEPT ![i] = "solve"]
                   /\ wround' = [wround EXCEPT ![i] = @ + 1]
                   /\ UNCHANGED y_diff
    /\ toWorker' = [toWorker EXCEPT ![i] = Tail(@)]
    /\ nBcastRecv' = [nBcastRecv EXCEPT ![i] = @ + 1]
    /\ UNCHANGED <<inputs, cvars, x_half, faults, nHalfSent, nHalfRecv,
                   nBcastSent>>

\* alpha = pipe.recv(); y[key] = sum_j alpha[j] * y_diff[j][key]
WorkerRecvAlpha(i) ==
    /\ wpc[i] = "recv_alpha"
    /\ toWorker[i] # <<>>
    /\ LET msg == Head(toWorker[i])
           yv == Mix(msg.alpha, y_diff[i], Min(m_accel, wk[i]))
       IN  v' = [v EXCEPT ![i] = [key \in DOMAIN v[i] |->
                                     [v[i][key] EXCEPT !.y = yv[key]]]]
    /\ toWorker' = [toWorker EXCEPT ![i] = Tail(@)]
    /\ wpc' = [wpc EXCEPT ![i] = "solve"]
    /\ wround' = [wround EXCEPT ![i] = @ + 1]
    /\ UNCHANGED <<inputs, cvars, x_half, y_diff, wk, toCoord, faults,
                   nHalfSent, nHalfRecv, nBcastSent, nBcastRecv>>

Coordinator ==
    \/ CoordConfig \/ CoordSpawn \/ CoordInit
    \/ CoordRecvHalf \/ CoordProject \/ CoordBcast
    \/ CoordSplit \/ CoordRecvRes \/ CoordNorm
    \/ CoordRecvHist \/ CoordWeights \/ CoordSendAlpha \/ CoordMix
    \/ CoordStopTest \/ CoordTerminate \/ CoordReturn

Worker(i) == WorkerSolve(i) \/ WorkerRecvBcast(i) \/ WorkerRecvAlpha(i)

Next == Coordinator \/ \E i \in Workers : Worker(i)

Spec == Init /\ [][Next]_vars

\* The runs from one problem list (worker 1 holds every key, the others
\* key 1; worker i fixes its variables to i) with eps_stop = 0.
InitFair ==
    /\ p_list = [i \in Workers |->
                   [vars |-> IF i = 1 THEN Keys ELSE {1}, a |-> Rat(i)]]
    /\ max_iter \in 0..MaxIter
    /\ eps_stop = Zero
    /\ anderson \in BOOLEAN
    /\ m_accel \in MAccelValues
    /\ anderson \/ m_accel <= 0
    /\ InitState

\* The coordinator's steps that move data: sends, receives, assignments.
CoordLight ==
    \/ CoordConfig \/ CoordSpawn \/ CoordInit
    \/ CoordRecvHalf \/ CoordBcast
    \/ CoordSplit \/ CoordRecvRes
    \/ CoordRecvHist \/ CoordSendAlpha \/ CoordMix
    \/ CoordStopTest \/ CoordTerminate \/ CoordReturn

\* The coordinator's computing steps, and the positions at which one of
\* them can be taken: none of them waits for anything.
CoordCompute == CoordProject \/ CoordNorm \/ CoordWeights

CoordComputing == cpc \in {"project", "norm", "weights"}

\* Worker i can take a step: it is about to solve, or it is in a recv on a
\* pipe that holds a message.
WorkerCanStep(i) ==
    \/ wpc[i] = "solve"
    \/ wpc[i] \in {"recv_bcast", "recv_alpha"} /\ toWorker[i] # <<>>

\* The coordinator and the workers are processes of the operating system:
\* each of them that can take a step eventually takes one (weak fairness
\* per process; a process has one position, so at most one of its steps
\* can be taken at a time).  For the computing steps and the workers weak
\* fairness is written out by its definition, []<>~ENABLED <<A>>_vars \/
\* []<><<A>>_vars, with the step's guard standing for ENABLED <<A>>_vars.
SpecFair ==
    /\ InitFair /\ [][Next]_vars
    /\ WF_vars(CoordLight)
    /\ []<>~CoordComputing \/ []<><<CoordCompute>>_vars
    /\ \A i \in Workers : []<>~WorkerCanStep(i) \/ []<><<Worker(i)>>_vars

(***************************************************************************)
(* w_project() on its own: the projection applied to arbitrary results     *)
(* prox_res and an arbitrary s_half, which need not agree on their keys.   *)
(* Worker i reports the value i for each key it reports; s_half holds the  *)
(* value key for each key it holds.                                        *)
(***************************************************************************)
ProxResults ==
    { [i \in Workers |-> [type |-> "half", status |-> sts[i],
                          y_half |-> [key \in ks[i] |-> Rat(i)]]] :
          sts \in [Workers -> Status], ks \in [Workers -> SUBSET Keys] }

SHalfs == { [key \in S |-> Rat(key)] : S \in SUBSET Keys }

InitProj ==
    /\ p_list = [i \in Workers |-> [vars |-> Keys, a |-> Zero]]
    /\ max_iter = MaxIter /\ eps_stop = Zero
    /\ anderson = FALSE /\ m_accel = 0
    /\ cpc = "project" /\ ci = 1 /\ err = "none"
    /\ k = 0 /\ s = <<>> /\ resid = <<>> /\ s_diff = <<>>
    /\ z \in SHalfs
    /\ prox_res \in ProxResults
    /\ mat_term = <<>> /\ z_new = <<>>
    /\ y_hist = <<>> /\ v_res = <<>> /\ alpha = <<>>
    /\ result = NoResult
    /\ wpc = [i \in Workers |-> "recv_bcast"]
    /\ v = [i \in Workers |-> <<>>]
    /\ x_half = [i \in Workers |-> <<>>]
    /\ y_diff = [i \in Workers |-> <<>>]
    /\ wk = [i \in Workers |-> -1]
    /\ toCoord = [i \in Workers |-> <<>>]
    /\ toWorker = [i \in Workers |-> <<>>]
    /\ wround = [i \in Workers |-> 0]
    /\ faults = 0
    /\ nHalfSent = [i \in Workers |-> 1]
    /\ nHalfRecv = [i \in Workers |-> 1]
    /\ nBcastSent = [i \in Workers |-> 0]
    /\ nBcastRecv = [i \in Workers |-> 0]

SpecProj == InitProj /\ [][CoordProject]_vars

(***************************************************************************)
(* The run computed round by round, with no processes and no pipes: every  *)
(* worker's half step, the projection, every worker's update, the          *)
(* coordinator's update.                                                   *)
(***************************************************************************)
RefInit(pl) ==
    [v |-> [i \in Workers |-> InitV(pl[i])],
     z |-> [key \in UNION { pl[i].vars : i \in Workers } |-> Zero],
     s |-> [key \in UNION { pl[i].vars : i \in Workers } |-> Zero],
     resid |-> <<>>, s_diff |-> <<>>,
     y_diff |-> [i \in Workers |-> <<>>],
     y_snap |-> <<>>, s_snap |-> <<>>, k |-> 0]

RefRound(pl, acc, m, st) ==
    LET xh == [i \in Workers |-> ProxSolve(pl[i], st.v[i])]
        half == [i \in Workers |->
                    [status |-> OPTIMAL, y_half |-> YHalf(xh[i], st.v[i])]]
        r == WProject(half, st.z)
        w == [i \in Workers |-> ApplyW(st.v[i], r.mat_term, r.z_new)]
        d == [i \in Workers |-> XDiff(w[i], xh[i])]
        zd == [key \in DOMAIN st.z |-> RSub(st.z[key], r.z_new[key])]
        m_k == Min(m, st.k)
        yd == [i \in Workers |-> Push(st.y_diff[i], d[i], m_k)]
        sd == Push(st.s_diff, zd, m_k)
        al == AAWeights(yd \o <<sd>>)
    IN  [v |-> IF acc
               THEN [i \in Workers |-> [key \in DOMAIN w[i] |->
                       [w[i][key] EXCEPT !.y = Mix(al, yd[i], m_k)[key]]]]
               ELSE [i \in Workers |-> DualStep(w[i], xh[i])],
         z |-> r.z_new,
         s |-> IF acc
               THEN Mix(al, sd, m_k)
               ELSE [key \in DOMAIN st.z |->
                       RAdd(st.s[key], RSub(r.z_new[key], st.z[key]))],
         resid |-> Append(st.resid,
                     NormSq(Concat([i \in Workers |-> Flatten(d[i])])
                            \o Flatten(zd))),
         s_diff |-> IF acc THEN sd ELSE st.s_diff,
         y_diff |-> IF acc THEN yd ELSE st.y_diff,
         y_snap |-> d, s_snap |-> zd,
         k |-> st.k + 1]

\* The states after rounds 1 .. n of the loop, were it never stopped.
\* Comparing a round with itself evaluates its values in full, so that the
\* next round reads them instead of computing them again.
RECURSIVE RefRun(_, _, _, _)
RefRun(pl, acc, m, n) ==
    IF n = 0 THEN <<>>
    ELSE LET prev == RefRun(pl, acc, m, n - 1)
             next == RefRound(pl, acc, m,
                              IF n = 1 THEN RefInit(pl) ELSE prev[n - 1])
         IN  IF next = next THEN Append(prev, next) ELSE prev

\* The rounds of every run that gets past the check of m_accel, computed
\* once from the inputs alone.
RefTable ==
    { <<pl, acc, m, RefRun(pl, acc, m, MaxIter)>> :
        pl \in ProblemLists, acc \in BOOLEAN, m \in MAccelValues \ {-1} }

(***************************************************************************)
(* dual_weights(primals) of acceleration.py: the weights w that minimise   *)
(* sum_squares(primals*w) subject to sum(w) == 1 and w >= 0.  primals is   *)
(* given by its columns, one per entry of the window.  The solver's answer *)
(* is any minimiser among the weight vectors over WeightGrid.              *)
(***************************************************************************)
WeightGrid == {Rat(-1), Zero, <<1, 2>>, One, Rat(2)}

\* Variant: the constraint sum(w) == 1 is left out.
DualFeasible_NoSum(n) ==
    { w \in [1..n -> WeightGrid] : \A j \in 1..n : RLe(Zero, w[j]) }

\* constr = [sum(w) == 1, w >= 0]
DualFeasible(n) ==
    { w \in [1..n -> WeightGrid] :
        RSum(w) = One /\ \A j \in 1..n : RLe(Zero, w[j]) }

\* obj = sum_squares(primals*w)
DualObjective(primals, w) ==
    NormSq([r \in 1..Len(primals[1]) |->
              RSum([j \in 1..Len(primals) |-> RMul(primals[j][r], w[j])])])

\* prob.solve(); return w.value
DualWeights(primals) ==
    { w \in DualFeasible(Len(primals)) :
        \A u \in DualFeasible(Len(primals)) :
            RLe(DualObjective(primals, w), DualObjective(primals, u)) }

\* The residual windows handed to dual_weights: one to m_accel + 1 entries,
\* each a residual per key.
ResidValues == {Rat(-1), Zero, One, Rat(2)}

Windows ==
    UNION { [1..(m + 1) -> [Keys -> ResidValues]] : m \in MAccelValues \ {-1} }

\* s_diff is the window, alpha the weights returned for it.
InitWeights ==
    /\ p_list = [i \in Workers |-> [vars |-> Keys, a |-> Zero]]
    /\ max_iter = MaxIter /\ eps_stop = Zero
    /\ anderson = TRUE /\ m_accel \in MAccelValues \ {-1}
    /\ cpc = "dual_weights" /\ ci = 1 /\ err = "none"
    /\ k = 0 /\ z = <<>> /\ s = <<>> /\ resid = <<>>
    /\ s_diff \in Windows
    /\ Len(s_diff) = m_accel + 1
    /\ prox_res = <<>> /\ mat_term = <<>> /\ z_new = <<>>
    /\ y_hist = <<>> /\ v_res = <<>> /\ alpha = <<>>
    /\ result = NoResult
    /\ wpc = [i \in Workers |-> "unstarted"]
    /\ v = [i \in Workers |-> <<>>]
    /\ x_half = [i \in Workers |-> <<>>]
    /\ y_diff = [i \in Workers |-> <<>>]
    /\ wk = [i \in Workers |-> -1]
    /\ toCoord = [i \in Workers |-> <<>>]
    /\ toWorker = [i \in Workers |-> <<>>]
    /\ wround = [i \in Workers |-> 0]
    /\ faults = 0
    /\ nHalfSent = [i \in Workers |-> 0]
    /\ nHalfRecv = [i \in Workers |-> 0]
    /\ nBcastSent = [i \in Workers |-> 0]
    /\ nBcastRecv = [i \in Workers |-> 0]

\* weights = dual_weights(primals)
DualWeightsCall ==
    /\ cpc = "dual_weights"
    /\ alpha' \in DualWeights([j \in 1..Len(s_diff) |-> Flatten(s_diff[j])])
    /\ cpc' = "dual_done"
    /\ UNCHANGED <<inputs, ci, err, k, z, s, resid, s_diff, prox_res, mat_term,
                   z_new, y_hist, v_res, result, wvars, pipes, hvars>>

SpecWeights == InitWeights /\ [][DualWeightsCall]_vars

(***************************************************************************)
(* Properties.                                                             *)
(***************************************************************************)
EpsSq == RMul(eps_stop, eps_stop)

\* C1: round barrier.  The coordinator has received the half-step message
\* of a round from every worker before it sends that round's broadcast to
\* any worker; a worker about to solve has received the broadcast of every
\* round it has solved, and never has more than one half-step unanswered;
\* a worker's count of completed rounds differs from k by at most one.
C1_RoundBarrier ==
    /\ \A i, j \in Workers : nBcastSent[i] <= nHalfRecv[j]
    /\ \A i \in Workers : wpc[i] = "solve" => nBcastRecv[i] = nHalfSent[i]
    /\ \A i \in Workers : nHalfSent[i] <= nBcastRecv[i] + 1
    /\ \A i \in Workers : wround[i] - k \in {-1, 0, 1}

\* A worker one round ahead of the coordinator and another level with it,
\* after the first round.
C1_Witness ==
    /\ k >= 1 /\ cpc \notin {"raised", "returned"}
    /\ \E i, j \in Workers : wround[i] = k + 1 /\ wround[j] = k

\* C2: the coordinator runs at most max_iter rounds (a round counted once
\* its broadcast has gone to every worker), whatever the residuals are.
C2_AtMostMaxIterRounds == nBcastSent[N] <= max_iter

\* C3: stopping rule.  The step that completes a round increments k and
\* leaves the loop exactly when k >= max_iter or
\* resid[k-1] <= eps_stop * resid[0], else it starts another round; the loop
\* is left normally by no other step.
C3_StoppingRule ==
    [][/\ (cpc = "stop_test" /\ cpc' # cpc) =>
             /\ k' = k + 1
             /\ cpc' \in {"terminate", "recv_half"}
             /\ cpc' = "terminate" <=>
                    (k' >= max_iter \/ RLe(resid[k'], RMul(EpsSq, resid[1])))
       /\ (cpc' = "terminate" /\ cpc # "terminate") => cpc = "stop_test"]_vars

\* The tolerance, not the cap, stopped the loop after the second round.
C3_Witness == cpc = "terminate" /\ k = 2 /\ k < max_iter

\* C4: when consensus() has returned or raised, every worker process that
\* was started has been terminated.
C4_WorkersTerminated ==
    cpc \in {"returned", "raised"} =>
        \A i \in Workers : wpc[i] \in {"unstarted", "terminated"}

\* C5: when a collected result reports an infeasible or unbounded status,
\* the projection raises: nothing is broadcast, z, s, resid and k keep
\* their values, and the coordinator takes no further step.
C5_AbortOnInfOrUnb ==
    [][/\ (/\ cpc = "project" /\ cpc' # cpc
           /\ \E i \in 1..Len(prox_res) : prox_res[i].status \in INF_OR_UNB) =>
             /\ cpc' = "raised" /\ err' = "RuntimeError_InfOrUnb"
             /\ UNCHANGED <<z, s, resid, k, toWorker, nBcastSent>>
       /\ cpc = "raised" => UNCHANGED <<cvars, toWorker, nBcastSent, nHalfRecv>>
      ]_vars

\* The run was aborted by a status reported in a round after the first.
C5_Witness == cpc = "raised" /\ err = "RuntimeError_InfOrUnb" /\ k >= 1

\* C6: the projection goes on to the broadcast only if every collected
\* status is optimal.
C6_OnlyOptimalProceeds ==
    [][(/\ cpc = "project" /\ cpc' # cpc
        /\ \E i \in 1..Len(prox_res) : prox_res[i].status # OPTIMAL) =>
            cpc' = "raised"]_vars

\* C7: with a negative m_accel the call raises ValueError with no worker
\* started and no message sent.
C7_NegativeMAccel ==
    m_accel < 0 =>
        /\ cpc \in {"config", "raised"}
        /\ cpc = "raised" => err = "ValueError"
        /\ \A i \in Workers :
              wpc[i] = "unstarted" /\ toCoord[i] = <<>> /\ toWorker[i] = <<>>

C7_Witness == m_accel = -1 /\ anderson /\ cpc = "raised" /\ err = "ValueError"

\* C8: when the keys the workers report differ from the keys of s_half (and
\* no status is infeasible or unbounded), the projection raises the
\* mismatch RuntimeError.
C8_MismatchRaisesConfigError ==
    [][(/\ cpc = "project" /\ cpc' # cpc
        /\ YsKeys(prox_res) # DOMAIN z
        /\ \A i \in 1..Len(prox_res) : prox_res[i].status \notin INF_OR_UNB) =>
            (cpc' = "raised" /\ err' = "RuntimeError_Mismatch")]_vars

\* The errors of the taxonomy: configuration errors and local-solve failure.
FatalErrors ==
    {"ValueError", "RuntimeError_InfOrUnb", "RuntimeError_Mismatch", "KeyError"}

ToleranceNeverMet ==
    \A j \in 1..k : ~RLe(resid[j], RMul(EpsSq, resid[1]))

\* C9: a run that ends without a fatal error and without ever meeting the
\* tolerance has returned, with num_iters = max_iter, the z of the last
\* round and one residual per round.
C9_NonConvergenceReturns ==
    (cpc \in {"returned", "raised"} /\ err \notin FatalErrors
     /\ ToleranceNeverMet) =>
        /\ cpc = "returned"
        /\ result.num_iters = max_iter
        /\ result.zvals = z_new
        /\ Len(result.residuals) = max_iter

\* C10: determinism.  Whatever the interleaving of the workers' and the
\* coordinator's steps, the returned consensus values, residuals and
\* iteration count are those of the round-by-round computation from the
\* same inputs, stopped at the first round the stopping test accepts.
C10_Deterministic ==
    cpc = "returned" =>
        LET ref == (CHOOSE t \in RefTable :
                        /\ t[1] = p_list
                        /\ t[2] = anderson
                        /\ t[3] = m_accel)[4]
            n == result.num_iters
        IN  /\ n \in 1..Len(ref)
            /\ result.zvals = ref[n].z
            /\ result.residuals = ref[n].resid
            /\ Finished(n, ref[n].resid)
            /\ \A j \in 1..(n - 1) : ~Finished(j, ref[j].resid)

\* A run of two rounds or more has returned, with one worker having solved
\* once more than another.
C10_Witness ==
    /\ cpc = "returned" /\ result.num_iters >= 2
    /\ \E i, j \in Workers : nHalfSent[i] # nHalfSent[j]

\* C11: key-set invariant.  From the initialization of the consensus
\* variables on, the keys of z, the keys of s and the union of the workers'
\* variable ids are the same set.
C11_KeySets ==
    (cpc \notin {"config", "spawn", "init"} /\ err # "ValueError") =>
        /\ DOMAIN z = VarAll
        /\ DOMAIN s = VarAll
        /\ VarAll = UNION { DOMAIN v[i] : i \in Workers }

\* The rounds of the run in mode (acc, m) from the inputs of this run.
RefOf(acc, m) ==
    (CHOOSE t \in RefTable : t[1] = p_list /\ t[2] = acc /\ t[3] = m)[4]

\* C12: with m_accel = 0 the accelerated mode computes, after every round,
\* the dual y of every worker and the split term s of the coordinator that
\* the non-accelerated updates y += x - x_half and s += z_new - z compute
\* from the same inputs.
C12_ZeroWindowReduces ==
    (anderson /\ m_accel = 0) =>
        /\ \A i \in Workers :
              (wpc[i] = "solve" /\ wround[i] >= 1) =>
                 \A key \in DOMAIN v[i] :
                    v[i][key].y = RefOf(FALSE, 0)[wround[i]].v[i][key].y
        /\ cpc = "stop_test" => s = RefOf(FALSE, 0)[k + 1].s

ExpectedWindow(snaps, kk) ==
    [j \in 1..(Min(m_accel, kk) + 1) |-> snaps[kk - Min(m_accel, kk) + j]]

\* C14: history windows.  In accelerated mode, after the push of round k
\* every worker's window and the coordinator's window hold the residual
\* snapshots of rounds k - min(m_accel, k) to k, oldest first; their length
\* is min(m_accel, k) + 1, at most m_accel + 1, the same for the workers and
\* the coordinator, and the number of weights the weighted update reads.
C14_WindowBookkeeping ==
    anderson =>
        LET ref == RefOf(TRUE, m_accel)
        IN  /\ \A i \in Workers :
                  wpc[i] = "recv_alpha" =>
                     /\ y_diff[i] = ExpectedWindow(
                            [r \in 1..Len(ref) |-> ref[r].y_snap[i]], wk[i])
                     /\ Len(y_diff[i]) <= m_accel + 1
            /\ cpc \in {"send_alpha", "mix"} =>
                  /\ s_diff = ExpectedWindow(
                         [r \in 1..Len(ref) |-> ref[r].s_snap], k)
                  /\ Len(s_diff) <= m_accel + 1
                  /\ Len(alpha) = Min(m_accel, k) + 1
                  /\ \A j \in 1..Len(y_hist) :
                        Len(y_hist[j].y_diff) = Len(s_diff)

\* The third round of a run with m_accel = 1: the window is full and the
\* snapshot of the first round has been dropped from it.
C14_Witness ==
    /\ anderson /\ m_accel = 1 /\ cpc = "mix" /\ k = 2
    /\ Len(s_diff) = 2 /\ s_diff[1] # s_diff[2]
    /\ \A i \in Workers : Len(y_hist[i].y_diff) = 2

\* C15: in every round, in both modes, the s_half handed to the projection
\* (the coordinator's z, line 216) equals the coordinator's split value s
\* for every key (s[key] of the defaultdict).
C15_SHalfIsSplitValue ==
    cpc = "project" => \A key \in DOMAIN z : z[key] = SGet(key)

\* The workers whose half-step message contains the key.
Holders(res, key) == { i \in 1..Len(res) : key \in DOMAIN res[i].y_half }

\* The sum of y_half_i[key] - s_half[key] over the workers of S.
RECURSIVE SumDiffs(_, _, _, _)
SumDiffs(res, s_half, key, S) ==
    IF S = {} THEN Zero
    ELSE LET i == CHOOSE j \in S : TRUE
         IN  RAdd(RSub(res[i].y_half[key], s_half[key]),
                  SumDiffs(res, s_half, key, S \ {i}))

\* C16: projection.  When w_project returns, for every key, with n the
\* number of workers whose message contains the key and sum_diffs the sum
\* of y_half_i[key] - s_half[key] over those workers,
\* mat_term[key] * (1 + n) = sum_diffs and
\* z_new[key] = s_half[key] + sum_diffs - n * mat_term[key].
C16_ProjectionFormula ==
    [][(cpc = "project" /\ cpc' = "bcast") =>
          /\ DOMAIN mat_term' = DOMAIN z /\ DOMAIN z_new' = DOMAIN z
          /\ \A key \in DOMAIN z :
                LET n == Cardinality(Holders(prox_res, key))
                    sum_diffs == SumDiffs(prox_res, z, key, Holders(prox_res, key))
                IN  /\ RMul(mat_term'[key], Rat(1 + n)) = sum_diffs
                    /\ z_new'[key] =
                          RSub(RAdd(z[key], sum_diffs),
                               RMul(Rat(n), mat_term'[key]))]_vars

\* s_half = {1: 1, 2: 2}; worker 1 reports 1 for keys 1 and 2 and worker 2
\* reports 2 for key 1: key 1 has n = 2, sum_diffs = 1, and key 2 has
\* n = 1, sum_diffs = -1.
C16_Witness ==
    /\ cpc = "bcast" /\ z = <<One, Rat(2)>>
    /\ mat_term = <<<<1, 3>>, <<-1, 2>>>>
    /\ z_new = <<<<4, 3>>, <<3, 2>>>>

\* C17: worker/coordinator z agreement.  After the initialization, a
\* worker that has applied as many broadcasts as the coordinator has
\* completed rounds holds the coordinator's z for every key of its own; at
\* the projection every worker is in that position, waiting for the
\* broadcast, so the previous z it will add to mat_term is the s_half the
\* projection uses.
C17_ZAgreement ==
    (cpc \notin {"config", "spawn", "init"} /\ err # "ValueError") =>
        /\ \A i \in Workers :
              nBcastRecv[i] = k =>
                 \A key \in DOMAIN v[i] : v[i][key].z = z[key]
        /\ cpc = "project" =>
              \A i \in Workers : nBcastRecv[i] = k /\ wpc[i] = "recv_bcast"

\* The projection of a round after the first, with a z that is not zero,
\* in a run where worker 2 does not hold every key.
C17_Witness ==
    /\ cpc = "project" /\ k >= 1
    /\ \E key \in DOMAIN z : z[key] # Zero
    /\ DOMAIN v[2] # DOMAIN z

\* Worker i has applied a broadcast and not yet solved again.
AtRoundEnd(i) ==
    wpc[i] = "recv_alpha" \/ (wpc[i] = "solve" /\ nBcastRecv[i] >= 1)

\* C18: exact consensus on x.  The step in which a worker applies a
\* broadcast leaves its x[key] equal to the z_new[key] of that broadcast
\* for every key it holds; hence two workers that have applied the same
\* round's broadcast hold the same x[key] for every key they share.
C18_ConsensusOnX ==
    /\ [][\A i \in Workers :
            nBcastRecv'[i] = nBcastRecv[i] + 1 =>
               \A key \in DOMAIN v[i] :
                  v'[i][key].x = Head(toWorker[i]).z_new[key]]_vars
    /\ [](\A i, j \in Workers :
            (AtRoundEnd(i) /\ AtRoundEnd(j) /\ nBcastRecv[i] = nBcastRecv[j]) =>
               \A key \in DOMAIN v[i] \cap DOMAIN v[j] :
                  v[i][key].x = v[j][key].x)

\* Two workers that share a key have applied the same broadcast, and the
\* consensus value differs from what either of them solved for.
C18_Witness ==
    /\ AtRoundEnd(1) /\ AtRoundEnd(2) /\ nBcastRecv[1] = nBcastRecv[2]
    /\ \E key \in DOMAIN v[1] \cap DOMAIN v[2] :
          /\ v[1][key].x # x_half[1][key]
          /\ v[2][key].x # x_half[2][key]

Kinds(q) == [j \in 1..Len(q) |-> q[j].type]

\* C19: message alignment.  Whenever the coordinator or a worker is at a
\* recv and a message is waiting, the message is of the kind that recv
\* expects and of the current round: the half step is the (k+1)-th of its
\* worker, the residual is the residual of round k, the broadcast carries
\* the number of rounds the worker has completed, and the weights are as
\* many as the worker's window holds.  A pipe never holds more than the
\* residual followed by the next round's half step.
C19_MessageAlignment ==
    /\ \A i \in Workers :
          /\ Kinds(toCoord[i]) \in
                {<<>>, <<"half">>, <<"res">>, <<"hist">>, <<"res", "half">>}
          /\ Len(toWorker[i]) <= 1
          /\ (wpc[i] = "recv_bcast" /\ toWorker[i] # <<>>) =>
                LET msg == Head(toWorker[i])
                IN  /\ msg.type = "bcast"
                    /\ msg.k = wround[i]
                    /\ msg.k = nBcastRecv[i]
          /\ (wpc[i] = "recv_alpha" /\ toWorker[i] # <<>>) =>
                LET msg == Head(toWorker[i])
                IN  /\ msg.type = "alpha"
                    /\ Len(msg.alpha) = Len(y_diff[i])
    /\ (cpc = "recv_half" /\ toCoord[ci] # <<>>) =>
          /\ Head(toCoord[ci]).type = "half"
          /\ nHalfRecv[ci] = k
    /\ (cpc \in {"recv_res", "recv_hist"} /\ toCoord[ci] # <<>>) =>
          LET msg == Head(toCoord[ci])
          IN  /\ msg.type = IF anderson THEN "hist" ELSE "res"
              /\ msg.y_res = Flatten(RefOf(anderson, m_accel)[k + 1].y_snap[ci])

\* The coordinator is about to receive the residual of a round after the
\* first from a non-accelerated worker that has already sent the half step
\* of the next round behind it.
C19_Witness ==
    /\ ~anderson /\ cpc = "recv_res" /\ k >= 1
    /\ Kinds(toCoord[ci]) = <<"res", "half">>

\* The coordinator and every worker are blocked in a recv on an empty pipe.
\* (A send does not block: a pipe holds the few messages of a round.)
Deadlocked ==
    /\ cpc \in {"recv_half", "recv_res", "recv_hist"} /\ toCoord[ci] = <<>>
    /\ \A i \in Workers :
          wpc[i] \in {"recv_bcast", "recv_alpha"} /\ toWorker[i] = <<>>

\* C20: deadlock freedom.  As long as every solve has reported optimal, the
\* coordinator and the workers are never all blocked in a recv; and in both
\* modes every round the coordinator starts while the stopping rule has not
\* fired (k < max_iter; the loop has not been left) completes: k is
\* incremented.
C20_DeadlockFreedom ==
    /\ [](faults = 0 => ~Deadlocked)
    /\ \A n \in 0..MaxIter :
          (cpc = "recv_half" /\ k = n /\ n < max_iter)
             ~> (k = n + 1 \/ faults > 0)

\* Two rounds of an accelerated all-optimal run have completed and the
\* third has started.
C20_Witness ==
    /\ anderson /\ faults = 0
    /\ k = 2 /\ cpc = "recv_half"
    /\ \A i \in Workers : nBcastRecv[i] = 2

=============================================================================
